---- MODULE Spec2Model ----
(***************************************************************************)
(* Model of patch_faulty_filter.py: the formula corrector (patch_report),  *)
(* the title relabeler (rename_titles), the directory walker               *)
(* (process_directory) and the command driver (main).                      *)
(*                                                                         *)
(* A document is a sequence of the markup fragments the regular            *)
(* expressions of the script look for.  A percentage is kept as the text   *)
(* it is written with: its magnitude in tenths of a percent and the way it *)
(* is written ("d1" = one decimal "45.0", "d0" = no decimal point "45",    *)
(* "neg" = with a minus sign "-14.3").  float() reads the magnitude back,  *)
(* the format specifier .1f always writes the "d1" form, and two           *)
(* fragments are the same text exactly when they are the same record.      *)
(***************************************************************************)
EXTENDS Integers, Sequences, FiniteSets, TLC

VARIABLES html, filename, patched, repatched, pc,
          argv, fs, dry_run, dirs, total, directory, files, modified,
          exit_code, usage, run, fs_start, writes, returned, prev, aborted

vars == <<html, filename, patched, repatched, pc,
          argv, fs, dry_run, dirs, total, directory, files, modified,
          exit_code, usage, run, fs_start, writes, returned, prev, aborted>>

mainVars == <<argv, fs, dry_run, dirs, total, directory, files, modified,
              exit_code, usage, run, fs_start, writes, returned, prev, aborted>>

----------------------------------------------------------------------------
(* Bounds of the model *)

MaxFrags == 4

MaxTitleFrags == 3

MaxArgs == 3

MaxRuns == 2

----------------------------------------------------------------------------
(* Number literals *)

Lit(v, f) == [v |-> v, f |-> f]

D1(v) == Lit(v, "d1")

D0(v) == Lit(v, "d0")

Neg(v) == Lit(v, "neg")

NoLit == Lit(0, "none")

NoId == <<>>

\* [\d.]+ : digits and dots, no sign
DigitsDot(l) == l.f \in {"d0", "d1"}

\* [\d]+ : digits only
DigitsOnly(l) == l.f = "d0"

\* float(text), in tenths
Float(l) == IF l.f = "neg" THEN 0 - l.v ELSE l.v

\* f'{x:.1f}' of a non-negative float
Format1f(x) == D1(x)

Frag(k, x, y, z) == [k |-> k, x |-> x, y |-> y, z |-> z, id |-> NoId]

TitleFrag(k, id) == [k |-> k, x |-> NoLit, y |-> NoLit, z |-> NoLit, id |-> id]

----------------------------------------------------------------------------
(* patch_report *)

Cap == 1000

Tolerance == 5

Abs(x) == IF x < 0 THEN 0 - x ELSE x

Min(a, b) == IF a < b THEN a ELSE b

\* str.replace(old, new): every occurrence of the text old becomes new
Replace(doc, old, new) ==
    [i \in DOMAIN doc |-> IF doc[i] = old THEN new ELSE doc[i]]

formula_pattern(f) ==
    f.k = "formula" /\ DigitsDot(f.x) /\ DigitsDot(f.y) /\ DigitsDot(f.z)

eff_formula_pattern(f) ==
    f.k = "equation" /\ DigitsDot(f.x) /\ DigitsDot(f.y) /\ DigitsDot(f.z)

hero_pattern(f) == f.k = "hero" /\ DigitsDot(f.z)

expl_pattern(f) == f.k = "sentence" /\ DigitsDot(f.y) /\ DigitsDot(f.z)

donut_pattern(f) == f.k = "values" /\ DigitsDot(f.x) /\ DigitsDot(f.y)

annotation_pattern(f) == f.k = "text" /\ DigitsOnly(f.z)

\* the pattern named pat matches the text of f
Matches(pat, f) ==
    CASE pat = "formula" -> formula_pattern(f)
      [] pat = "equation" -> eff_formula_pattern(f)
      [] pat = "hero" -> hero_pattern(f)
      [] pat = "sentence" -> expl_pattern(f)
      [] pat = "values" -> donut_pattern(f)
      [] pat = "text" -> annotation_pattern(f)

\* re.search: index of the first fragment the pattern matches, 0 when none
Search(doc, pat) ==
    IF \E i \in DOMAIN doc : Matches(pat, doc[i])
    THEN CHOOSE i \in DOMAIN doc :
            Matches(pat, doc[i]) /\ \A j \in 1..(i-1) : ~Matches(pat, doc[j])
    ELSE 0

\* (variant: the sum is compared with 100 exactly, without the tolerance)
already_correct_exact(e, b, u) == e + b + u = 1000

\* abs(total - 100.0) < 0.5.  The sum is taken exactly; the values of the
\* model (40.0, 30.0, 29.5, 30.4, ...) are ones whose double sum compares
\* with 0.5 the way the decimal sum does.
already_correct(e, b, u) == Abs((e + b + u) - 1000) < Tolerance

\* The pairs (Explained, Background) of the model's values whose decimal sum
\* is 100.0 and for which the double subtraction 100.0 - e - b is a tiny
\* negative number (76.9 and 23.1: -7.1e-15), so that round(.., 1) is -0.0.
negative_residue == {<<769, 231>>}

\* (variant: the background share is not subtracted)
new_unmatched_pct_no_background(e, b) ==
    IF 1000 - e < 0 THEN Format1f(0) ELSE Format1f(1000 - e)

\* round(100.0 - explained_pct - background_pct, 1), floored, as written by
\* f'{new_unmatched_pct:.1f}'
new_unmatched_pct(e, b) ==
    LET d == 1000 - e - b IN
    IF d < 0 THEN Format1f(0)
    ELSE IF d = 0 /\ <<e, b>> \in negative_residue THEN Neg(0)
    ELSE Format1f(d)

\* html.replace('Unmatched (OLD%)', 'Unmatched (NEW%)')
replace_unmatched(doc, old, new) ==
    [i \in DOMAIN doc |->
        IF doc[i].k = "formula" /\ doc[i].z = Format1f(old)
        THEN [doc[i] EXCEPT !.z = new] ELSE doc[i]]

\* round(n / d, 0) to the nearest integer, ties to even
RoundDiv(n, d) ==
    LET q == n \div d
        r == n % d
    IN IF 2 * r < d THEN q
       ELSE IF 2 * r > d THEN q + 1
       ELSE IF q % 2 = 0 THEN q ELSE q + 1

new_eff(explained_pct, targetable_pct) ==
    IF targetable_pct > 0
    THEN Min(RoundDiv(explained_pct * 1000, targetable_pct), Cap)
    ELSE 0

\* eff_match.group(0).replace(old_eff_str, new_eff_str)
replace_eff(f, e) ==
    IF f.z = Format1f(Float(f.z))
    THEN [f EXCEPT !.z = Format1f(new_eff(e, Float(f.y)))]
    ELSE f

fix_eff(doc, e) ==
    LET m == Search(doc, "equation") IN
    IF m = 0 THEN doc ELSE Replace(doc, doc[m], replace_eff(doc[m], e))

fix_hero(doc) ==
    LET m == Search(doc, "hero") IN
    IF m # 0 /\ Float(doc[m].z) > Cap
    THEN Replace(doc, doc[m], [doc[m] EXCEPT !.z = Format1f(Min(Float(doc[m].z), Cap))])
    ELSE doc

fix_expl(doc) ==
    LET m == Search(doc, "sentence") IN
    IF m # 0 /\ Float(doc[m].z) > Cap
    THEN Replace(doc, doc[m], [doc[m] EXCEPT !.z = Format1f(Min(Float(doc[m].z), Cap))])
    ELSE doc

fix_donut(f) ==
    IF Float(f.x) > Cap THEN [f EXCEPT !.x = D1(Cap), !.y = D0(0)] ELSE f

fix_donut_annotation(f) ==
    IF Float(f.z) > Cap THEN [f EXCEPT !.z = D0(Cap)] ELSE f

\* re.sub(r'"values": ..', fix_donut, html)
sub_donut(doc) ==
    [i \in DOMAIN doc |-> IF donut_pattern(doc[i]) THEN fix_donut(doc[i]) ELSE doc[i]]

\* re.sub(r'("text": ")..', fix_donut_annotation, html)
sub_donut_annotation(doc) ==
    [i \in DOMAIN doc |->
        IF annotation_pattern(doc[i]) THEN fix_donut_annotation(doc[i]) ELSE doc[i]]

patch_report(doc) ==
    LET formula_match == Search(doc, "formula") IN
    IF formula_match = 0 THEN doc
    ELSE
      LET explained_pct == Float(doc[formula_match].x)
          background_pct == Float(doc[formula_match].y)
          old_unmatched_pct == Float(doc[formula_match].z)
      IN
      IF already_correct(explained_pct, background_pct, old_unmatched_pct)
      THEN doc
      ELSE
        LET h1 == replace_unmatched(doc, old_unmatched_pct,
                      new_unmatched_pct(explained_pct, background_pct))
            h2 == fix_eff(h1, explained_pct)
            h3 == fix_hero(h2)
            h4 == fix_expl(h3)
        IN sub_donut_annotation(sub_donut(h4))

----------------------------------------------------------------------------
(* Documents handed to patch_report *)

Formula(e, b, u) == Frag("formula", e, b, u)

Equation(a, t, c) == Frag("equation", a, t, c)

Hero(v) == Frag("hero", NoLit, NoLit, v)

Sentence(p, q) == Frag("sentence", NoLit, p, q)

Values(v, r) == Frag("values", v, r, NoLit)

Text(n) == Frag("text", NoLit, NoLit, n)

PatchFragments ==
    { Formula(D1(400), D1(300), D1(450)),
      Formula(D1(400), D1(300), D1(300)),
      Formula(D1(400), D1(300), D1(295)),
      Formula(D1(400), D1(300), D1(304)),
      Formula(D1(700), D1(400), D1(50)),
      Formula(D1(769), D1(231), D1(231)),
      Formula(D1(400), D1(300), D0(450)),
      Equation(D1(400), D1(700), D1(1143)),
      Equation(D1(400), D1(350), D1(1143)),
      Equation(D1(400), D1(0), D1(1143)),
      Equation(D1(400), D1(700), D0(1140)),
      Hero(D1(1143)), Hero(D1(571)),
      Sentence(D1(700), D1(1143)), Sentence(D1(700), D1(571)),
      Values(D1(1143), Neg(143)), Values(D1(1143), D1(0)), Values(D1(571), D1(429)),
      Text(D0(1110)), Text(D0(570)), Text(D1(1115)) }

KindRank(k) ==
    CASE k = "formula" -> 1
      [] k = "equation" -> 2
      [] k = "hero" -> 3
      [] k = "sentence" -> 4
      [] k = "values" -> 5
      [] k = "text" -> 6
      [] OTHER -> 7

\* The documents are written fragment by fragment, grouped by kind: the
\* patterns of patch_report are searched independently of one another, so
\* only the order of fragments of the same kind matters.
InOrder(doc, f) ==
    IF doc = <<>> THEN TRUE ELSE KindRank(doc[Len(doc)].k) <= KindRank(f.k)

NoFile == [stem |-> "", digits |-> <<>>, rest |-> ""]

NoRun == [dry_run |-> FALSE, returned |-> <<>>, completed |-> FALSE, fs_start |-> <<>>]

MainIdle ==
    /\ argv = <<>> /\ fs = <<>> /\ dry_run = FALSE /\ dirs = <<>>
    /\ total = 0 /\ directory = "" /\ files = <<>> /\ modified = 0
    /\ exit_code = -1 /\ usage = FALSE /\ run = 0 /\ fs_start = <<>>
    /\ writes = 0 /\ returned = <<>> /\ prev = NoRun /\ aborted = FALSE

InitPatch ==
    /\ html = <<>> /\ filename = NoFile /\ patched = <<>> /\ repatched = <<>>
    /\ pc = "input"
    /\ MainIdle

EmitFragment(f) ==
    /\ pc = "input"
    /\ Len(html) < MaxFrags
    /\ InOrder(html, f)
    /\ html' = Append(html, f)
    /\ UNCHANGED <<filename, patched, repatched, pc>>
    /\ UNCHANGED mainVars

PatchReport ==
    /\ pc = "input"
    /\ patched' = patch_report(html)
    /\ pc' = "patched"
    /\ UNCHANGED <<html, filename, repatched>>
    /\ UNCHANGED mainVars

PatchReportAgain ==
    /\ pc = "patched"
    /\ repatched' = patch_report(patched)
    /\ pc' = "repatched"
    /\ UNCHANGED <<html, filename, patched>>
    /\ UNCHANGED mainVars

NextPatch ==
    \/ \E f \in PatchFragments : EmitFragment(f)
    \/ PatchReport
    \/ PatchReportAgain

SpecPatch == InitPatch /\ [][NextPatch]_vars

----------------------------------------------------------------------------
(* Properties of patch_report *)

formula_of(doc) == Search(doc, "formula")

\* patch_report goes past both early returns on doc
corrects(doc) ==
    /\ formula_of(doc) # 0
    /\ ~already_correct(Float(doc[formula_of(doc)].x), Float(doc[formula_of(doc)].y),
                        Float(doc[formula_of(doc)].z))

shows_efficiency(f) == f.k \in {"equation", "hero", "sentence", "text"}

formula_sum(f) == Float(f.x) + Float(f.y) + Float(f.z)

\* C1: after patch_report, no displayed efficiency percentage (equation
\* result, hero card, narrative sentence, chart annotation) exceeds 100.0,
\* whatever the input document.
C1_CapInvariant ==
    pc = "patched" =>
        \A i \in DOMAIN patched :
            shows_efficiency(patched[i]) => Float(patched[i].z) <= Cap

\* the breakdown formula of html was found and its text was rewritten
formula_rewritten ==
    /\ pc = "patched" /\ corrects(html)
    /\ patched[formula_of(html)] # html[formula_of(html)]

C3_Idempotent ==
    pc = "repatched" => repatched = patched

\* C4: in a document patch_report corrects, every "values": [V, R] pair with
\* V > 100 has become [100.0, 0], negative remainders included, and every
\* pair with V <= 100 is untouched.
C4_ChartPairs ==
    (pc = "patched" /\ corrects(html)) =>
        \A i \in DOMAIN html :
            html[i].k = "values" =>
                IF Float(html[i].x) > Cap
                THEN patched[i] = Values(D1(Cap), D0(0))
                ELSE patched[i] = html[i]

\* C5: after patch_report corrects a document holding the efficiency
\* equation, the hero card and the narrative sentence, the three show the
\* same efficiency percentage.
C5_Agreement ==
    (/\ pc = "patched" /\ corrects(html)
     /\ Search(html, "equation") # 0
     /\ Search(html, "hero") # 0
     /\ Search(html, "sentence") # 0) =>
        LET eq == patched[Search(html, "equation")]
            hero == patched[Search(html, "hero")]
            expl == patched[Search(html, "sentence")]
        IN Float(eq.z) = Float(hero.z) /\ Float(hero.z) = Float(expl.z)

\* C6 as claimed: patch_report returns its input unchanged when the formula
\* is absent and when its three values sum to 100 +/- 0.5, the sums 99.5 and
\* 100.5 included.
C6_NoOpInclusive ==
    (pc = "patched" /\
     (formula_of(html) = 0 \/
      Abs(formula_sum(html[formula_of(html)]) - 1000) <= Tolerance)) =>
        patched = html

\* C6 as amended: patch_report returns its input unchanged when the formula
\* is absent and when its three values sum to strictly less than 0.5 away
\* from 100; no other fragment is rewritten then.
C6_NoOpStrict ==
    (pc = "patched" /\
     (formula_of(html) = 0 \/
      Abs(formula_sum(html[formula_of(html)]) - 1000) < Tolerance)) =>
        patched = html

C6_Witness ==
    /\ pc = "patched"
    /\ formula_of(html) # 0
    /\ formula_sum(html[formula_of(html)]) = 1004
    /\ \E i \in DOMAIN html : html[i].k = "hero" /\ Float(html[i].z) > Cap
    /\ patched = html

----------------------------------------------------------------------------
(* rename_titles *)

FileName(stem, digits, rest) == [stem |-> stem, digits |-> digits, rest |-> rest]

\* re.search(r'dynamic_report_(\d+)', filename)
house_match(name) == name.stem = "dynamic_report_" /\ name.digits # <<>>

house_id(name) == name.digits

IsPrefix(s, t) == Len(s) <= Len(t) /\ SubSeq(t, 1, Len(s)) = s

\* (variant: the searched string stops after the house id, without the
\* closing tag, so 'House 7' is also found at the start of 'House 77')
names_house_prefix(f, id) == IsPrefix(id, f.id)

\* the searched string '... - House {house_id}</title>' is the text of f
names_house(f, id) == f.id = id

rename_house(f, id) ==
    IF f.k = "title_house" /\ names_house(f, id) THEN TitleFrag("title_nan_house", f.id)
    ELSE IF f.k = "h1_house" /\ names_house(f, id) THEN TitleFrag("h1_nan_house", f.id)
    ELSE f

rename_aggregate(f) ==
    IF f.k = "title_agg" THEN TitleFrag("title_nan_agg", NoId)
    ELSE IF f.k = "h1_agg" THEN TitleFrag("h1_nan_agg", NoId)
    ELSE f

rename_titles(doc, name) ==
    IF house_match(name)
    THEN [i \in DOMAIN doc |-> rename_house(doc[i], house_id(name))]
    ELSE [i \in DOMAIN doc |-> rename_aggregate(doc[i])]

----------------------------------------------------------------------------
(* Documents and file names handed to rename_titles *)

TitleFragments ==
    { TitleFrag("title_house", <<7>>), TitleFrag("title_house", <<7, 7>>),
      TitleFrag("h1_house", <<7>>), TitleFrag("h1_house", <<7, 7>>),
      TitleFrag("title_agg", NoId), TitleFrag("h1_agg", NoId),
      TitleFrag("title_nan_house", <<7>>),
      Hero(D1(571)) }

HouseFile(digits) == FileName("dynamic_report_", digits, ".html")

ReportFile == FileName("", <<>>, "report.html")

NanComparisonFile == FileName("", <<>>, "nan_comparison.html")

TitleFileNames ==
    { HouseFile(<<7>>), HouseFile(<<7, 7>>),
      FileName("dynamic_report_", <<>>, "x.html"),
      ReportFile, NanComparisonFile }

InitTitles ==
    /\ html = <<>> /\ filename \in TitleFileNames
    /\ patched = <<>> /\ repatched = <<>>
    /\ pc = "input"
    /\ MainIdle

EmitTitleFragment(f) ==
    /\ pc = "input"
    /\ Len(html) < MaxTitleFrags
    /\ html' = Append(html, f)
    /\ UNCHANGED <<filename, patched, repatched, pc>>
    /\ UNCHANGED mainVars

RenameTitles ==
    /\ pc = "input"
    /\ patched' = rename_titles(html, filename)
    /\ pc' = "renamed"
    /\ UNCHANGED <<html, filename, repatched>>
    /\ UNCHANGED mainVars

NextTitles ==
    \/ \E f \in TitleFragments : EmitTitleFragment(f)
    \/ RenameTitles

SpecTitles == InitTitles /\ [][NextTitles]_vars

is_house_title(f) == f.k \in {"title_house", "h1_house"}

is_aggregate_title(f) == f.k \in {"title_agg", "h1_agg"}

relabeled(f) ==
    CASE f.k = "title_house" -> TitleFrag("title_nan_house", f.id)
      [] f.k = "h1_house" -> TitleFrag("h1_nan_house", f.id)
      [] f.k = "title_agg" -> TitleFrag("title_nan_agg", NoId)
      [] f.k = "h1_agg" -> TitleFrag("h1_nan_agg", NoId)
      [] OTHER -> f

\* C10: with a file name carrying house id N, rename_titles rewrites exactly
\* the <title>/<h1> strings naming House N and leaves those of other houses
\* and the aggregate strings alone; the aggregate strings are rewritten only
\* when the file name carries no house id; everything else is unchanged.
C10_TitleScoping ==
    pc = "renamed" =>
        \A i \in DOMAIN html :
            IF house_match(filename)
            THEN IF is_house_title(html[i]) /\ html[i].id = filename.digits
                 THEN patched[i] = relabeled(html[i])
                 ELSE patched[i] = html[i]
            ELSE IF is_aggregate_title(html[i])
                 THEN patched[i] = relabeled(html[i])
                 ELSE patched[i] = html[i]

C10_Witness ==
    /\ pc = "renamed"
    /\ filename = HouseFile(<<7>>)
    /\ \E i, j, k \in DOMAIN html :
        /\ html[i] = TitleFrag("title_house", <<7>>)
        /\ patched[i] = TitleFrag("title_nan_house", <<7>>)
        /\ html[j] = TitleFrag("title_house", <<7, 7>>) /\ patched[j] = html[j]
        /\ html[k] = TitleFrag("title_agg", NoId) /\ patched[k] = html[k]

----------------------------------------------------------------------------
(* process_directory and main *)

Directories == {"A", "B"}

\* os.path.isdir(d)
isdir(d) == d \in Directories

\* glob 'dynamic_report_*.html'
per_house_pattern(name) ==
    name.stem = "dynamic_report_" /\ name.rest \in {".html", "x.html"}

\* 'Detection Efficiency' in original: the label is part of the hero card
detection_efficiency_in(doc) == \E i \in DOMAIN doc : doc[i].k = "hero"

\* position of a file name in sorted(files)
SortKey(name) == IF name.digits = <<>> THEN 100 ELSE
                 IF Len(name.digits) = 1 THEN name.digits[1] * 10
                 ELSE name.digits[1] * 10 + name.digits[2] + 1

RECURSIVE Sorted(_)
Sorted(S) ==
    IF S = {} THEN <<>>
    ELSE LET first == CHOOSE n \in S : \A m \in S : SortKey(n) <= SortKey(m)
         IN <<first>> \o Sorted(S \ {first})

\* sorted(glob.glob(per_house_pattern)), as base names
glob_sorted(fsys, d) ==
    Sorted({p[2] : p \in {q \in DOMAIN fsys : q[1] = d /\ per_house_pattern(q[2])}})

\* lines 194-197: the text computed for a per-house report
patched_house(original, name) ==
    rename_titles(IF detection_efficiency_in(original)
                  THEN patch_report(original) ELSE original, name)

\* (variant: the file is written in a dry run too)
write_always(fsys, path, text, dry) == [fsys EXCEPT ![path] = text]

\* lines 205-210 and 228-233: the file is overwritten unless dry_run
write(fsys, path, text, dry) ==
    IF dry THEN fsys ELSE [fsys EXCEPT ![path] = text]

aggregate_names == <<ReportFile, NanComparisonFile>>

\* lines 244-249: the usage check and the argument parsing
Main ==
    /\ pc = "start"
    /\ IF Len(argv) + 1 < 2
       THEN /\ usage' = TRUE /\ exit_code' = 1 /\ pc' = "exited"
            /\ UNCHANGED <<dry_run, dirs, total>>
       ELSE /\ dry_run' = (\E i \in DOMAIN argv : argv[i] = "--dry-run")
            /\ dirs' = SelectSeq(argv, LAMBDA a : a # "--dry-run")
            /\ total' = 0
            /\ pc' = "dirs"
            /\ UNCHANGED <<usage, exit_code>>
    /\ UNCHANGED <<html, filename, patched, repatched>>
    /\ UNCHANGED <<argv, fs, directory, files, modified, run, fs_start,
                   writes, returned, prev, aborted>>

\* lines 252-255: an argument that is no directory is skipped
SkipDirectory ==
    /\ pc = "dirs" /\ dirs # <<>> /\ ~isdir(Head(dirs))
    /\ dirs' = Tail(dirs)
    /\ UNCHANGED <<html, filename, patched, repatched, pc>>
    /\ UNCHANGED <<argv, fs, dry_run, total, directory, files, modified,
                   exit_code, usage, run, fs_start, writes, returned, prev, aborted>>

\* lines 256-257 and 186-189: process_directory is entered
EnterDirectory ==
    /\ pc = "dirs" /\ dirs # <<>> /\ isdir(Head(dirs))
    /\ directory' = Head(dirs)
    /\ dirs' = Tail(dirs)
    /\ files' = glob_sorted(fs, Head(dirs))
    /\ modified' = 0
    /\ pc' = "house"
    /\ UNCHANGED <<html, filename, patched, repatched>>
    /\ UNCHANGED <<argv, fs, dry_run, total, exit_code, usage, run, fs_start,
                   writes, returned, prev, aborted>>

\* lines 190-212: one iteration of the per-house loop
PatchHouseFile ==
    /\ pc = "house" /\ files # <<>>
    /\ LET name == Head(files)
           original == fs[<<directory, name>>]
           text == patched_house(original, name)
       IN IF text = original
          THEN UNCHANGED <<fs, modified, writes>>
          ELSE /\ fs' = write(fs, <<directory, name>>, text, dry_run)
               /\ writes' = IF fs' = fs THEN writes ELSE writes + 1
               /\ modified' = modified + 1
    /\ files' = Tail(files)
    /\ UNCHANGED <<html, filename, patched, repatched, pc>>
    /\ UNCHANGED <<argv, dry_run, dirs, total, directory, exit_code, usage,
                   run, fs_start, returned, prev, aborted>>

\* line 215: the per-house loop is over, the aggregate loop starts
StartAggregates ==
    /\ pc = "house" /\ files = <<>>
    /\ files' = aggregate_names
    /\ pc' = "aggregate"
    /\ UNCHANGED <<html, filename, patched, repatched>>
    /\ UNCHANGED <<argv, fs, dry_run, dirs, total, directory, modified,
                   exit_code, usage, run, fs_start, writes, returned, prev, aborted>>

\* lines 215-235: one iteration of the aggregate loop
RenameAggregate ==
    /\ pc = "aggregate" /\ files # <<>>
    /\ LET name == Head(files)
           path == <<directory, name>>
       IN IF path \notin DOMAIN fs
          THEN UNCHANGED <<fs, modified, writes>>
          ELSE LET original == fs[path]
                   text == rename_titles(original, name)
               IN IF text = original
                  THEN UNCHANGED <<fs, modified, writes>>
                  ELSE /\ fs' = write(fs, path, text, dry_run)
                       /\ writes' = IF fs' = fs THEN writes ELSE writes + 1
                       /\ modified' = modified + 1
    /\ files' = Tail(files)
    /\ UNCHANGED <<html, filename, patched, repatched, pc>>
    /\ UNCHANGED <<argv, dry_run, dirs, total, directory, exit_code, usage,
                   run, fs_start, returned, prev, aborted>>

\* lines 237-240 and 257: process_directory returns, main adds the count
ReturnModified ==
    /\ pc = "aggregate" /\ files = <<>>
    /\ total' = total + modified
    /\ returned' = Append(returned, modified)
    /\ pc' = "dirs"
    /\ UNCHANGED <<html, filename, patched, repatched>>
    /\ UNCHANGED <<argv, fs, dry_run, dirs, directory, files, modified,
                   exit_code, usage, run, fs_start, writes, prev, aborted>>

\* line 259: the summary is printed and the interpreter exits with status 0
Done ==
    /\ pc = "dirs" /\ dirs = <<>>
    /\ exit_code' = 0
    /\ pc' = "exited"
    /\ UNCHANGED <<html, filename, patched, repatched>>
    /\ UNCHANGED <<argv, fs, dry_run, dirs, total, directory, files, modified,
                   usage, run, fs_start, writes, returned, prev, aborted>>

\* The process is killed from outside between two steps of a run that
\* writes (section 5 of the spec: "runs to completion or is killed").
Kill ==
    /\ pc \in {"dirs", "house", "aggregate"}
    /\ ~dry_run /\ ~aborted
    /\ aborted' = TRUE
    /\ pc' = "killed"
    /\ UNCHANGED <<html, filename, patched, repatched>>
    /\ UNCHANGED <<argv, fs, dry_run, dirs, total, directory, files, modified,
                   exit_code, usage, run, fs_start, writes, returned, prev>>

\* The tool is started again on the files as they are now: with the same
\* arguments, or, after a dry run, with the --dry-run flag taken away.
Rerun ==
    /\ pc \in {"exited", "killed"}
    /\ run < MaxRuns
    /\ run' = run + 1
    /\ prev' = [dry_run |-> dry_run, returned |-> returned,
                completed |-> (pc = "exited" /\ exit_code = 0),
                fs_start |-> fs_start]
    /\ argv' = IF dry_run THEN SelectSeq(argv, LAMBDA a : a # "--dry-run") ELSE argv
    /\ fs_start' = fs
    /\ pc' = "start"
    /\ dry_run' = FALSE /\ dirs' = <<>> /\ total' = 0 /\ directory' = ""
    /\ files' = <<>> /\ modified' = 0 /\ exit_code' = -1 /\ usage' = FALSE
    /\ writes' = 0 /\ returned' = <<>>
    /\ UNCHANGED <<html, filename, patched, repatched, fs, aborted>>

----------------------------------------------------------------------------
(* File systems and argument lists the tool is started on *)

Args == {"--dry-run", "A", "B", "nodir"}

ArgLists == UNION {[1..n -> Args] : n \in 0..MaxArgs}

Title7 == TitleFrag("title_house", <<7>>)

Heading7 == TitleFrag("h1_house", <<7>>)

\* a report of the faulty run: wrong sum, efficiency above 100
BrokenReport ==
    <<Title7, Heading7, Formula(D1(400), D1(300), D1(450)),
      Equation(D1(400), D1(350), D1(1143)), Hero(D1(1143)),
      Values(D1(1143), D1(0)), Text(D0(1110))>>

\* a report with two formula bars, the first with Explained + Background = 100
TwoBarReport ==
    <<Formula(D1(769), D1(231), D1(231)), Formula(D1(400), D1(300), D1(450)),
      Hero(D1(571))>>

\* a report that needs nothing
CleanReport ==
    <<TitleFrag("title_nan_house", <<7>>), Formula(D1(400), D1(300), D1(300)),
      Hero(D1(571))>>

\* a per-house page without the efficiency card
PlainReport == <<TitleFrag("title_house", <<7, 7>>), Formula(D1(400), D1(300), D1(450))>>

AggregateReport == <<TitleFrag("title_agg", NoId), TitleFrag("h1_agg", NoId)>>

Contents(path) ==
    IF path = <<"A", HouseFile(<<7>>)>> THEN {BrokenReport, TwoBarReport, CleanReport}
    ELSE IF path = <<"A", HouseFile(<<7, 7>>)>> THEN {PlainReport}
    ELSE IF path = <<"A", ReportFile>> THEN {AggregateReport}
    ELSE IF path = <<"B", HouseFile(<<7>>)>> THEN {BrokenReport}
    ELSE {AggregateReport}

\* the files come in three groups, each present or not: the report of house 7
\* in A, the other files of A, and the files of B
PathGroups ==
    { { <<"A", HouseFile(<<7>>)>> },
      { <<"A", HouseFile(<<7, 7>>)>>, <<"A", ReportFile>> },
      { <<"B", HouseFile(<<7>>)>>, <<"B", NanComparisonFile>> } }

FileSystems ==
    UNION { {f \in [UNION G -> UNION {Contents(p) : p \in UNION G}] :
                \A p \in UNION G : f[p] \in Contents(p)} : G \in SUBSET PathGroups }

Init ==
    /\ html = <<>> /\ filename = NoFile /\ patched = <<>> /\ repatched = <<>>
    /\ pc = "start"
    /\ argv \in ArgLists
    /\ fs \in FileSystems
    /\ fs_start = fs
    /\ run = 1
    /\ dry_run = FALSE /\ dirs = <<>> /\ total = 0 /\ directory = ""
    /\ files = <<>> /\ modified = 0 /\ exit_code = -1 /\ usage = FALSE
    /\ writes = 0 /\ returned = <<>> /\ prev = NoRun /\ aborted = FALSE

Next ==
    \/ Main
    \/ SkipDirectory
    \/ EnterDirectory
    \/ PatchHouseFile
    \/ StartAggregates
    \/ RenameAggregate
    \/ ReturnModified
    \/ Done
    \/ Kill
    \/ Rerun

Spec == Init /\ [][Next]_vars

----------------------------------------------------------------------------
(* Properties of main and process_directory *)

directory_arguments(args) == SelectSeq(args, LAMBDA a : a # "--dry-run")

processed_directories(args) ==
    SelectSeq(args, LAMBDA a : a # "--dry-run" /\ isdir(a))

completed == pc = "exited" /\ exit_code = 0

\* C7: main prints the usage message and exits non-zero, having processed
\* nothing, exactly when the arguments name no target directory (--dry-run
\* alone included); with a directory argument it exits 0.
C7_ExitStatus ==
    pc = "exited" =>
        IF directory_arguments(argv) = <<>>
        THEN usage /\ exit_code # 0 /\ returned = <<>> /\ fs = fs_start
        ELSE ~usage /\ exit_code = 0

\* C8: a dry run changes no file's content and creates or deletes no file,
\* and every process_directory call of a dry run returns the count the same
\* call returns in a run without --dry-run started on the same contents.
C8_DryRun ==
    /\ dry_run => fs = fs_start
    /\ (prev.completed /\ prev.dry_run /\ ~dry_run /\ prev.fs_start = fs_start) =>
          \A i \in DOMAIN returned :
              (\A j \in 1..(i-1) :
                  processed_directories(argv)[j] # processed_directories(argv)[i])
              => returned[i] = prev.returned[i]

C8_Witness ==
    /\ prev.completed /\ prev.dry_run /\ prev.fs_start = fs_start
    /\ completed /\ ~dry_run
    /\ Len(returned) = 2 /\ returned[1] = 3 /\ prev.returned = returned
    /\ writes = 5
    /\ DOMAIN fs = DOMAIN fs_start

\* the files of directory d after an uninterrupted process_directory
walked(fsys, d) ==
    [p \in DOMAIN fsys |->
        IF p[1] # d THEN fsys[p]
        ELSE IF per_house_pattern(p[2]) THEN patched_house(fsys[p], p[2])
        ELSE IF p[2] \in {ReportFile, NanComparisonFile} THEN rename_titles(fsys[p], p[2])
        ELSE fsys[p]]

RECURSIVE uninterrupted(_, _)
uninterrupted(fsys, ds) ==
    IF ds = <<>> THEN fsys
    ELSE uninterrupted(IF isdir(Head(ds)) THEN walked(fsys, Head(ds)) ELSE fsys, Tail(ds))

\* C9: when a run without --dry-run is killed between two file writes and the
\* tool is run again to completion, every file ends with the content one
\* uninterrupted run produces; and a complete run directly after a complete
\* run overwrites no file and reports 0 changed documents.
C9_SafeRerun ==
    (completed /\ ~dry_run /\ run >= 2 /\ ~prev.dry_run) =>
        IF prev.completed
        THEN writes = 0 /\ total = 0
        ELSE fs = uninterrupted(prev.fs_start, directory_arguments(argv))

====
